---- MODULE Spec2Model ----
(***************************************************************************)
(* Video generation job orchestration (backend/app/api/video_generation.py,*)
(* backend/app/services/video_generation_service.py,                       *)
(* backend/app/services/dashscope_service.py).                             *)
(*                                                                         *)
(* One Job is followed from submit (POST /api/video/generate) through the  *)
(* background poller (process_video_generation) and concurrent getStatus   *)
(* calls (GET /api/video/job/{job_id}).  All handlers are coroutines of    *)
(* one event loop: a step of the model is the code between two awaits.     *)
(* Each handler works on its own ORM session: it loads the Job row, edits  *)
(* its copy and commit() writes back the attributes whose value changed.   *)
(***************************************************************************)
EXTENDS Integers, Sequences, FiniteSets, TLC

\* ------------------------------------------------------------------ bounds
NumCallers == 2          \* concurrent getStatus requests
MaxCalls == 3            \* getStatus calls issued in one behaviour

\* ------------------------------------------------------- program constants
MinDuration == 3
MaxDuration == 20
max_single_duration == 10
max_retries == 3

None == "None"

Durations == MinDuration..MaxDuration
Modes == {"t2v", "i2v"}
Resolutions == {"480P", "720P", "1080P"}

default_t2v_model == "wan2.5-t2v-preview"
default_i2v_model == "wan2.5-i2v-preview"

t2v_models ==
  [m \in {"wan2.5-t2v-preview", "wan2.2-t2v-plus"} |->
     IF m = "wan2.5-t2v-preview"
     THEN [resolutions |-> {"480P", "720P", "1080P"}, durations |-> {5, 10}]
     ELSE [resolutions |-> {"480P", "1080P"}, durations |-> {5}]]

i2v_models ==
  [m \in {"wan2.5-i2v-preview", "wan2.2-i2v-flash", "wan2.2-i2v-plus",
          "wanx2.1-i2v-turbo"} |->
     CASE m = "wan2.5-i2v-preview" ->
            [resolutions |-> {"480P", "720P", "1080P"}, durations |-> {5, 10}]
       [] m = "wan2.2-i2v-flash" ->
            [resolutions |-> {"480P", "720P", "1080P"}, durations |-> {5}]
       [] m = "wan2.2-i2v-plus" ->
            [resolutions |-> {"480P", "1080P"}, durations |-> {5}]
       [] OTHER ->
            [resolutions |-> {"480P", "720P"}, durations |-> {3, 4, 5}]]

ModelTable(mode) == IF mode = "t2v" THEN t2v_models ELSE i2v_models

\* model or self.default_*_model
ModelName(mode, model) ==
  IF model # None THEN model
  ELSE IF mode = "t2v" THEN default_t2v_model ELSE default_i2v_model

\* the model names a request may carry: none, a listed one, an unlisted one
ModelChoices(mode) == {None, "unlisted-model"} \cup DOMAIN ModelTable(mode)

\* ----------------------------------------------------------------- planner
RECURSIVE SumSeq(_)
SumSeq(s) == IF s = <<>> THEN 0 ELSE Head(s) + SumSeq(Tail(s))

\* a planner that drops the remainder instead of merging it
MergeRemainderDropped(segs, remaining) == segs

\* the remainder branch of the loop: a remainder below 5 is merged into the
\* last segment, or becomes the only segment
MergeRemainder(segs, remaining) ==
  IF segs # <<>>
  THEN [segs EXCEPT ![Len(segs)] = @ + remaining]
  ELSE <<remaining>>

\* while remaining > 0: 10 while it fits, then 5, then the remainder
RECURSIVE PlanLoop(_, _)
PlanLoop(remaining, segs) ==
  IF remaining <= 0 THEN segs
  ELSE IF remaining >= 10 THEN PlanLoop(remaining - 10, Append(segs, 10))
  ELSE IF remaining >= 5 THEN PlanLoop(remaining - 5, Append(segs, 5))
  ELSE MergeRemainder(segs, remaining)

segment_durations(duration) == PlanLoop(duration, <<>>)

\* _generate_with_aliyun: one call up to max_single_duration, else the loop
IsLong(duration) == duration > max_single_duration

PlannedSegments(duration) ==
  IF IsLong(duration) THEN segment_durations(duration) ELSE <<duration>>

\* DashScopeService.generate_*_to_video, the checks made before the HTTP call
ValidateCreate(mode, model, resolution, duration) ==
  LET name == ModelName(mode, model)
      table == ModelTable(mode)
  IN IF name \notin DOMAIN table THEN "unsupported_model"
     ELSE IF duration \notin table[name].durations THEN "unsupported_duration"
     ELSE IF resolution \notin table[name].resolutions
          THEN "unsupported_resolution"
     ELSE "ok"

\* ------------------------------------------------------------------- state
Callers == 1..NumCallers
Terminal == {"SUCCEEDED", "FAILED"}
NonTerminal == {"PENDING", "RUNNING", "CONCATENATING"}

VARIABLES
  req,         \* the submitted request, NoReq before submit
  sub,         \* the generate_video coroutine: pc, plan, segment in flight
  job,         \* the video_generation_jobs row
  remote,      \* provider side: status of task t, t = 1..Len(remote)
  createCalls, \* durations of the create-task HTTP calls issued so far
  poller,      \* the background task process_video_generation
  elapsed,     \* more than max_wait_time has passed since the deadline began
  gs,          \* the get_job_status coroutines, one per caller
  calls,       \* number of getStatus calls issued
  now,         \* datetime.utcnow(), a logical clock
  views,       \* the last two responses of getStatus calls on a terminal Job
  seenFailed,  \* a finished observer has seen a segment FAILED at the provider
  attempts,    \* HTTP answers to the create-task call in flight, or to the
               \* call that ended submit with an error
  taskSeg,     \* taskSeg[t]: the segment index task t was created for
  downloads,   \* downloads[t]: times _download_video stored task t's video
  finished,    \* the tasks in the order they became terminal at the provider
  ingest       \* the uploaded image of the request and what was done with it

vars == <<req, sub, job, remote, createCalls, poller, elapsed, gs, calls, now,
          views, seenFailed, attempts, taskSeg, downloads, finished, ingest>>

NoReq == [mode |-> None, model |-> None, duration |-> 0, resolution |-> None]

\* VideoGenerationJob columns the handlers write; status ABSENT = no row yet
NoJob ==
  [status |-> "ABSENT", task_ids |-> <<>>, local_path |-> None,
   error_message |-> None, completed_at |-> 0, usage |-> 0]

NoResult ==
  [error |-> None, message |-> None, completed_segments |-> 0,
   output_path |-> None]

IdleCall ==
  [pc |-> "idle", snap |-> NoJob, cur |-> NoJob, idx |-> 0,
   all_succeeded |-> TRUE, all_failed |-> TRUE, sawFailed |-> FALSE,
   queried |-> FALSE, readStatus |-> None, obs |-> <<>>]

\* an image URL: where it points (the bucket, or the base URL of this
\* server) and the extension of the stored file
NoUrl == [base |-> None, ext |-> None]

\* the img_url of a create-task request body
NoPayload == [kind |-> None, mime |-> None, url |-> NoUrl]

NoIngest ==
  [endpoint |-> None, content_type |-> None, ext |-> None, oss |-> None,
   api_url |-> None, oss_calls |-> 0, image_url |-> NoUrl,
   payload |-> NoPayload, response |-> None]

\* {task_id}.mp4 in the video storage directory
TaskFile(t) == <<"task1.mp4", "task2.mp4", "task3.mp4">>[t]
ConcatFile == "concatenated.mp4"

Init ==
  /\ req = NoReq
  /\ sub = [pc |-> "idle", plan |-> <<>>, i |-> 0, attempt |-> 0,
            task_ids |-> <<>>]
  /\ job = NoJob
  /\ remote = <<>>
  /\ createCalls = <<>>
  /\ poller = [pc |-> "idle", i |-> 0, video_paths |-> <<>>,
               concat_list |-> <<>>, manifest_exists |-> FALSE,
               result |-> NoResult]
  /\ elapsed = FALSE
  /\ gs = [c \in Callers |-> IdleCall]
  /\ calls = 0
  /\ now = 1
  /\ views = <<>>
  /\ seenFailed = FALSE
  /\ attempts = <<>>
  /\ taskSeg = <<>>
  /\ downloads = <<>>
  /\ finished = <<>>
  /\ ingest = NoIngest

\* ------------------------------------------------------------------ submit
\* an error branch that raises before it writes the row
SubmitErrorRaised(err) ==
  /\ sub' = [sub EXCEPT !.pc = "done"]
  /\ UNCHANGED <<job, poller>>

\* generate_video after the service returned: the three result shapes
SubmitError(err) ==
  /\ job' = [job EXCEPT !.status = "FAILED", !.error_message = err]
  /\ sub' = [sub EXCEPT !.pc = "done"]
  /\ UNCHANGED poller

\* a handler that records every accepted result as RUNNING
SubmitTasksAlwaysRunning(ids) ==
  /\ sub' = [sub EXCEPT !.pc = "done", !.task_ids = ids]
  /\ job' = [job EXCEPT !.status = "RUNNING", !.task_ids = ids]
  /\ IF IsLong(req.duration)
     THEN poller' = [poller EXCEPT !.pc = "scheduled"]
     ELSE UNCHANGED poller

SubmitTasks(ids) ==
  /\ sub' = [sub EXCEPT !.pc = "done", !.task_ids = ids]
  /\ IF IsLong(req.duration)
     THEN /\ job' = [job EXCEPT !.status = "CONCATENATING", !.task_ids = ids]
          /\ poller' = [poller EXCEPT !.pc = "scheduled"]
     ELSE /\ job' = [job EXCEPT !.status = "RUNNING", !.task_ids = ids]
          /\ UNCHANGED poller

\* POST /generate from the creation of the row to the first await: the row is
\* committed PENDING, the plan is built and the first segment is validated;
\* an invalid first segment ends the request at once
CreateJob(mode, model, duration, resolution) ==
  /\ sub.pc = "idle"
  /\ req' = [mode |-> mode, model |-> model, duration |-> duration,
             resolution |-> resolution]
  /\ LET plan == PlannedSegments(duration)
         v == ValidateCreate(mode, model, resolution, plan[1])
     IN IF v # "ok"
        THEN /\ job' = [NoJob EXCEPT !.status = "FAILED", !.error_message = v]
             /\ sub' = [pc |-> "done", plan |-> plan, i |-> 1,
                        attempt |-> 0, task_ids |-> <<>>]
             /\ UNCHANGED createCalls
        ELSE /\ job' = [NoJob EXCEPT !.status = "PENDING"]
             /\ sub' = [pc |-> "creating", plan |-> plan, i |-> 1,
                        attempt |-> 0, task_ids |-> <<>>]
             /\ createCalls' = Append(createCalls, plan[1])
  /\ UNCHANGED <<remote, poller, elapsed, gs, calls, now, views, seenFailed,
                 attempts, taskSeg, downloads, finished>>

\* POST /generate without an image file (text-to-video, or image-to-video
\* with an image_url)
SubmitBegin(mode, model, duration, resolution) ==
  /\ CreateJob(mode, model, duration, resolution)
  /\ UNCHANGED ingest

\* --------------------------------------------------------- image ingestion
\* the content types, file name extensions, bucket states and API_URL values
\* an upload may meet
ContentTypes == {"image/png", "image/webp", "application/pdf", None}
FileNameExts == {".png", ".PNG", ".bin", ""}
OssStates == {"ok", "put_fails", "not_configured"}
ImageFiles == [content_type : ContentTypes, name_ext : FileNameExts]
ApiUrls ==
  {"http://localhost:8000", "http://127.0.0.1:8000",
   "https://studio.example.com"}

\* file.content_type and file.content_type.startswith("image/")
IsImageType(content_type) == content_type \in {"image/png", "image/webp"}

\* os.path.splitext(filename)[1] or ".jpg"
FileExt(name_ext) == IF name_ext = "" THEN ".jpg" ELSE name_ext

\* OSSService.upload_file_content: without a bucket nothing is sent;
\* put_object may raise; every failure asks for the fallback
upload_file_content(oss, file_ext) ==
  IF oss = "ok"
  THEN [success |-> TRUE, public_url |-> [base |-> "oss", ext |-> file_ext],
        fallback |-> FALSE, puts |-> 1]
  ELSE [success |-> FALSE, public_url |-> NoUrl, fallback |-> TRUE,
        puts |-> IF oss = "put_fails" THEN 1 ELSE 0]

\* ImageUploadService.upload_image_content: the bucket first; its fallback,
\* upload_to_smms, always returns an error
upload_image_content(oss, file_ext) ==
  LET result == upload_file_content(oss, file_ext)
  IN IF result.success THEN result
     ELSE [result EXCEPT !.fallback = TRUE]

\* str.lower() on the extensions at hand
Lower(ext) == IF ext = ".PNG" THEN ".png" ELSE ext

\* mime_type_map.get(file_ext, "image/jpeg")
mime_type(file_ext) ==
  CASE file_ext \in {".jpg", ".jpeg"} -> "image/jpeg"
    [] file_ext = ".png" -> "image/png"
    [] file_ext = ".gif" -> "image/gif"
    [] file_ext = ".webp" -> "image/webp"
    [] OTHER -> "image/jpeg"

\* image_url.startswith("http://localhost") or
\* image_url.startswith("http://127.0.0.1")
IsLocalUrl(image_url) ==
  image_url.base \in {"http://localhost:8000", "http://127.0.0.1:8000"}

\* generate_image_to_video: the img_url put in the request body; the file
\* behind a URL of this server is read and sent as a data URI
img_url(image_url) ==
  IF IsLocalUrl(image_url)
  THEN [kind |-> "data_uri", mime |-> mime_type(Lower(image_url.ext)),
        url |-> NoUrl]
  ELSE [kind |-> "url", mime |-> None, url |-> image_url]

\* POST /upload-image
UploadImage(file, oss) ==
  /\ ingest.endpoint = None
  /\ LET file_ext == FileExt(file.name_ext)
         upload_result == upload_image_content(oss, file_ext)
         base == [NoIngest EXCEPT !.endpoint = "upload",
                                  !.content_type = file.content_type,
                                  !.ext = file_ext, !.oss = oss]
     IN ingest' =
          IF ~IsImageType(file.content_type)
          THEN [base EXCEPT !.response = "http_400"]
          ELSE IF upload_result.success
          THEN [base EXCEPT !.oss_calls = upload_result.puts,
                            !.image_url = upload_result.public_url,
                            !.response = "ok"]
          ELSE [base EXCEPT !.oss_calls = upload_result.puts,
                            !.response = "http_500"]
  /\ UNCHANGED <<req, sub, job, remote, createCalls, poller, elapsed, gs,
                 calls, now, views, seenFailed, attempts, taskSeg, downloads,
                 finished>>

\* POST /generate with mode i2v and an image_file: the file is uploaded, or
\* saved under media/images and addressed through API_URL; then the request
\* goes on as every other
SubmitImageBegin(model, duration, resolution, image_file, oss, api_url) ==
  /\ ingest.endpoint = None
  /\ CreateJob("i2v", model, duration, resolution)
  /\ LET file_ext == FileExt(image_file.name_ext)
         upload_result == upload_image_content(oss, file_ext)
         image_url == IF upload_result.success
                      THEN upload_result.public_url
                      ELSE [base |-> api_url, ext |-> file_ext]
         plan == PlannedSegments(duration)
     IN ingest' =
          [NoIngest EXCEPT
             !.endpoint = "submit",
             !.content_type = image_file.content_type,
             !.ext = file_ext, !.oss = oss, !.api_url = api_url,
             !.oss_calls = upload_result.puts,
             !.image_url = image_url,
             !.payload = IF ValidateCreate("i2v", model, resolution,
                                           plan[1]) = "ok"
                         THEN img_url(image_url) ELSE NoPayload]

\* what one HTTP attempt of a create-task call can end with: 200 with a
\* task_id, 200 without one, a status of the no-retry list [400, 401, 403,
\* 404], another 4xx, 502, another 5xx, httpx.ConnectError /
\* RemoteProtocolError, httpx.TimeoutException
HttpOutcomes ==
  {"ok", "ok_no_task_id", "http_400", "http_429", "http_500", "http_502",
   "connect_error", "timeout"}

\* the "error" of the dict a failed create-task call returns
CreateError(outcome) ==
  CASE outcome = "timeout" -> "request_timeout"
    [] outcome = "connect_error" -> "connect_error"
    [] outcome = "ok_no_task_id" -> "no_task_id"
    [] OTHER -> "api_error"

CreateErrors == {CreateError(o) : o \in HttpOutcomes \ {"ok"}}

\* a retry loop that retries every non-200 status
ShouldRetryAnyStatus(mode, outcome, attempt) ==
  /\ mode = "i2v"
  /\ outcome \in {"http_400", "http_429", "http_500", "http_502",
                  "connect_error"}
  /\ attempt < max_retries - 1

\* generate_image_to_video: "for attempt in range(max_retries)" goes on after
\* 502, after a status outside [400, 401, 403, 404] and after a connection
\* error; a timeout leaves the loop.  generate_text_to_video has no loop.
ShouldRetry(mode, outcome, attempt) ==
  /\ mode = "i2v"
  /\ outcome \in {"http_429", "http_500", "http_502", "connect_error"}
  /\ attempt < max_retries - 1

\* the answer to one HTTP attempt of the create-task call of segment sub.i
CreateResponse(outcome) ==
  /\ sub.pc = "creating"
  /\ IF outcome # "ok"
     THEN /\ attempts' = Append(attempts, outcome)
          /\ UNCHANGED <<remote, createCalls, taskSeg, downloads>>
          /\ IF ShouldRetry(req.mode, outcome, sub.attempt)
             THEN /\ sub' = [sub EXCEPT !.attempt = @ + 1]
                  /\ UNCHANGED <<job, poller>>
             ELSE SubmitError(CreateError(outcome))
     ELSE LET t == Len(remote) + 1
              ids == Append(sub.task_ids, t)
          IN /\ remote' = Append(remote, "PENDING")
             /\ taskSeg' = Append(taskSeg, sub.i)
             /\ downloads' = Append(downloads, 0)
             /\ attempts' = <<>>
             /\ IF sub.i = Len(sub.plan)
                THEN /\ SubmitTasks(ids)
                     /\ UNCHANGED createCalls
                ELSE LET v == ValidateCreate(req.mode, req.model,
                                             req.resolution,
                                             sub.plan[sub.i + 1])
                     IN IF v # "ok"
                        THEN /\ SubmitError(v)
                             /\ UNCHANGED createCalls
                        ELSE /\ sub' = [sub EXCEPT !.i = @ + 1,
                                                   !.attempt = 0,
                                                   !.task_ids = ids]
                             /\ createCalls' =
                                  Append(createCalls, sub.plan[sub.i + 1])
                             /\ UNCHANGED <<job, poller>>
  /\ UNCHANGED <<req, elapsed, gs, calls, now, views, seenFailed, finished,
                 ingest>>

\* ---------------------------------------------------------------- provider
ProviderAdvance(t, s) ==
  /\ t \in 1..Len(remote)
  /\ \/ remote[t] = "PENDING" /\ s = "RUNNING"
     \/ remote[t] = "RUNNING" /\ s \in Terminal
  /\ remote' = [remote EXCEPT ![t] = s]
  /\ finished' = IF s \in Terminal THEN Append(finished, t) ELSE finished
  /\ UNCHANGED <<req, sub, job, createCalls, poller, elapsed, gs, calls, now,
                 views, seenFailed, attempts, taskSeg, downloads, ingest>>

\* DashScopeService.get_task_status: what one status query can return
StatusResult(status, error, local_path, usage) ==
  [status |-> status, error |-> error, local_path |-> local_path,
   usage |-> usage]

get_task_status(t) ==
  {StatusResult(None, "query_failed", None, 0)} \cup
  (CASE remote[t] = "SUCCEEDED" ->
          {StatusResult("SUCCEEDED", None, TaskFile(t), t),
           StatusResult("SUCCEEDED", "download_failed", None, 0)}
     [] remote[t] = "FAILED" ->
          {StatusResult("FAILED", "provider_error", None, 0)}
     [] OTHER -> {StatusResult(remote[t], None, None, 0)})

\* _download_video stores {task_id}.mp4 whenever a status query finds the
\* task SUCCEEDED and the download works; an existing file is not looked for
Downloaded(t, r) ==
  IF r.local_path # None THEN [downloads EXCEPT ![t] = @ + 1] ELSE downloads

\* ------------------------------------------------------------------ poller
PollerResult(error, message, completed_segments, output_path) ==
  [error |-> error, message |-> message,
   completed_segments |-> completed_segments, output_path |-> output_path]

\* the error text of a failed wait, which names the task
TaskFailed(t) == <<"task1_failed", "task2_failed", "task3_failed">>[t]

\* what the wait returns for a status result that carries an error (and is
\* not PENDING) and for a FAILED task: the same dict in both places
TaskFailure(t, r, done) == PollerResult(TaskFailed(t), r.error, done, None)

\* a list that grows at the front
AddPathFront(video_paths, local_path) == <<local_path>> \o video_paths

\* video_paths.append(local_path)
AddPath(video_paths, local_path) == Append(video_paths, local_path)

\* the ffmpeg concat list file: one "file '<path>'" line per video, in the
\* order of video_paths
ConcatList(video_paths) ==
  [k \in 1..Len(video_paths) |-> <<"file", video_paths[k]>>]

\* a concatenator that reports its failures with the text of the deadline
concatenate_videos_timeout_text(video_paths) ==
  {PollerResult(None, None, 0, ConcatFile),
   PollerResult("timeout", None, 0, None),
   PollerResult("timeout", "ffmpeg_stderr", 0, None),
   PollerResult("timeout", "ffmpeg_over_5_minutes", 0, None),
   PollerResult("timeout", "install_ffmpeg", 0, None)}

\* concatenate_videos: a video file may be gone, ffmpeg may succeed, exit
\* non-zero, time out or be missing
concatenate_videos(video_paths) ==
  {PollerResult(None, None, 0, ConcatFile),
   PollerResult("video_file_missing", None, 0, None),
   PollerResult("concat_failed", "ffmpeg_stderr", 0, None),
   PollerResult("concat_timeout", "ffmpeg_over_5_minutes", 0, None),
   PollerResult("ffmpeg_missing", "install_ffmpeg", 0, None)}

\* the concat list is written after the check that every video file exists
ManifestWritten(result) == result.error # "video_file_missing"

\* os.remove(concat_list_path) follows subprocess.run when it returns; the
\* handlers of TimeoutExpired and FileNotFoundError do not remove the file
ManifestRemoved(result) ==
  result.error \notin {"concat_timeout", "ffmpeg_missing"}

\* a background task that records the error text but not the status
PollerWriteErrorOnly(p, result) ==
  /\ poller' = [p EXCEPT !.pc = "done", !.result = result]
  /\ IF result.error # None
     THEN /\ job' = [job EXCEPT !.error_message = result.error]
          /\ UNCHANGED now
     ELSE /\ job' = [job EXCEPT !.status = "SUCCEEDED",
                                !.local_path = result.output_path,
                                !.completed_at = now]
          /\ now' = now + 1

\* process_video_generation after the wait returned: the row is re-read and
\* written in one step (no await in between); p is the poller at that point
PollerWrite(p, result) ==
  /\ poller' = [p EXCEPT !.pc = "done", !.result = result]
  /\ IF result.error # None
     THEN /\ job' = [job EXCEPT !.status = "FAILED",
                                !.error_message = result.error]
          /\ UNCHANGED now
     ELSE /\ job' = [job EXCEPT !.status = "SUCCEEDED",
                                !.local_path = result.output_path,
                                !.completed_at = now]
          /\ now' = now + 1

\* a background task that does not wait for the response
PollerStartEarly ==
  /\ \/ poller.pc = "scheduled"
     \/ poller.pc = "idle" /\ sub.pc = "creating" /\ sub.task_ids # <<>>
  /\ poller' = [poller EXCEPT !.pc = "polling", !.i = 1]
  /\ UNCHANGED <<req, sub, job, remote, createCalls, elapsed, gs, calls, now,
                 views, seenFailed, attempts, taskSeg, downloads, finished,
                 ingest>>

\* the background task starts after the response was sent: start_time is set
PollerStart ==
  /\ poller.pc = "scheduled"
  /\ poller' = [poller EXCEPT !.pc = "polling", !.i = 1]
  /\ UNCHANGED <<req, sub, job, remote, createCalls, elapsed, gs, calls, now,
                 views, seenFailed, attempts, taskSeg, downloads, finished,
                 ingest>>

\* the job-level deadline passes: max_wait_time after the poller's start_time
\* (for a Job without poller: after its task was created)
DeadlineElapses ==
  /\ ~elapsed
  /\ \/ poller.pc = "polling"
     \/ sub.pc = "done" /\ job.status = "RUNNING"
  /\ elapsed' = TRUE
  /\ UNCHANGED <<req, sub, job, remote, createCalls, poller, gs, calls, now,
                 views, seenFailed, attempts, taskSeg, downloads, finished,
                 ingest>>

\* one iteration of the wait loop on segment poller.i: the deadline test, the
\* status query and what follows its answer up to the next await
PollerPoll ==
  /\ poller.pc = "polling"
  /\ LET t == sub.task_ids[poller.i]
         done == Len(poller.video_paths)
     IN IF elapsed
        THEN /\ PollerWrite(poller, PollerResult("timeout", "wait_exceeded",
                                                 done, None))
             /\ UNCHANGED <<seenFailed, downloads>>
        ELSE \E r \in get_task_status(t) :
               /\ downloads' = Downloaded(t, r)
               /\ IF r.error # None /\ r.status # "PENDING"
                  THEN /\ PollerWrite(poller, TaskFailure(t, r, done))
                       /\ seenFailed' = (seenFailed \/ r.status = "FAILED")
                  ELSE IF r.status = "SUCCEEDED"
                  THEN LET paths == AddPath(poller.video_paths, r.local_path)
                       IN /\ UNCHANGED seenFailed
                          /\ IF poller.i = Len(sub.task_ids)
                             THEN \E c \in concatenate_videos(paths) :
                                    PollerWrite(
                                      [poller EXCEPT
                                         !.video_paths = paths,
                                         !.concat_list =
                                           IF ManifestWritten(c)
                                           THEN ConcatList(paths) ELSE <<>>,
                                         !.manifest_exists =
                                           /\ ManifestWritten(c)
                                           /\ ~ManifestRemoved(c)],
                                      c)
                             ELSE /\ poller' = [poller EXCEPT
                                                  !.i = @ + 1,
                                                  !.video_paths = paths]
                                  /\ UNCHANGED <<job, now>>
                  ELSE \* PENDING or RUNNING: sleep poll_interval and loop
                       UNCHANGED <<poller, job, now, seenFailed>>
  /\ UNCHANGED <<req, sub, remote, createCalls, elapsed, gs, calls, views,
                 attempts, taskSeg, finished, ingest>>

\* --------------------------------------------------------------- getStatus
\* the response of GET /job/{job_id}, built from the row after commit
JobView(row) ==
  [status |-> row.status,
   local_path |-> IF row.status = "SUCCEEDED" THEN row.local_path ELSE None,
   usage |-> IF row.status = "SUCCEEDED" THEN row.usage ELSE 0,
   error |-> IF row.status = "FAILED" THEN row.error_message ELSE None,
   completed_at |-> row.completed_at,
   task_ids |-> row.task_ids]

\* a guard that forgets the status test
ShouldReconcileAnyStatus(row) == row.task_ids # <<>>

\* the guard of the reconciliation block
ShouldReconcile(row) == row.status \in NonTerminal /\ row.task_ids # <<>>

\* Session.commit(): UPDATE .. SET the attributes whose value was changed
Commit(row, snap, cur) ==
  [f \in DOMAIN row |-> IF cur[f] # snap[f] THEN cur[f] ELSE row[f]]

\* a loop body that takes no error text from a FAILED task
ObserveTaskNoError(call, r) ==
  IF r.status = "SUCCEEDED"
  THEN [call EXCEPT
          !.all_failed = FALSE,
          !.cur = [@ EXCEPT
                     !.local_path = IF @ = None /\ r.local_path # None
                                    THEN r.local_path ELSE @,
                     !.usage = IF r.usage # 0 THEN r.usage ELSE @]]
  ELSE IF r.status = "FAILED"
  THEN [call EXCEPT !.all_succeeded = FALSE, !.sawFailed = TRUE]
  ELSE [call EXCEPT !.all_succeeded = FALSE, !.all_failed = FALSE]

\* the body of "for task_id in job.task_ids" for one status result
ObserveTask(call, r) ==
  IF r.status = "SUCCEEDED"
  THEN [call EXCEPT
          !.all_failed = FALSE,
          !.cur = [@ EXCEPT
                     !.local_path = IF @ = None /\ r.local_path # None
                                    THEN r.local_path ELSE @,
                     !.usage = IF r.usage # 0 THEN r.usage ELSE @]]
  ELSE IF r.status = "FAILED"
  THEN [call EXCEPT
          !.all_succeeded = FALSE,
          !.sawFailed = TRUE,
          !.cur = [@ EXCEPT !.error_message = IF @ = None THEN r.error ELSE @]]
  ELSE [call EXCEPT !.all_succeeded = FALSE, !.all_failed = FALSE]

\* a status update without the CONCATENATING exception
DecideStatusNoConcatCheck(call) ==
  IF call.all_succeeded
  THEN [call.cur EXCEPT !.status = "SUCCEEDED", !.completed_at = now]
  ELSE IF call.all_failed
  THEN [call.cur EXCEPT !.status = "FAILED"]
  ELSE call.cur

\* "update the job status" after the loop
DecideStatus(call) ==
  IF call.all_succeeded
  THEN IF call.cur.status = "CONCATENATING"
       THEN call.cur
       ELSE [call.cur EXCEPT !.status = "SUCCEEDED", !.completed_at = now]
  ELSE IF call.all_failed
  THEN [call.cur EXCEPT !.status = "FAILED"]
  ELSE call.cur

\* the loop over the status results of all tasks, in order
RECURSIVE ObserveAll(_, _)
ObserveAll(call, results) ==
  IF results = <<>> THEN call
  ELSE ObserveAll(ObserveTask(call, Head(results).result), Tail(results))

\* the row a whole getStatus call leaves when it reads row and the provider
\* answers its status queries with results
Reconcile(row, results) ==
  IF ShouldReconcile(row)
  THEN Commit(row, row,
              DecideStatus(ObserveAll([IdleCall EXCEPT !.snap = row,
                                                       !.cur = row],
                                      results)))
  ELSE row

\* the responses of the calls that found the Job already terminal
RecordView(readStatus, view) ==
  IF readStatus \in Terminal
  THEN IF Len(views) < 2 THEN Append(views, view) ELSE <<views[2], view>>
  ELSE views

\* GET /job/{job_id} up to its first await: the row is read; a terminal Job,
\* or one without tasks, is answered at once
GetStatusBegin(c) ==
  /\ gs[c].pc = "idle"
  /\ calls < MaxCalls
  /\ job.status # "ABSENT"
  /\ calls' = calls + 1
  /\ IF ShouldReconcile(job)
     THEN /\ gs' = [gs EXCEPT ![c] =
                      [IdleCall EXCEPT !.pc = "poll", !.snap = job,
                                       !.cur = job, !.idx = 1,
                                       !.queried = TRUE,
                                       !.readStatus = job.status]]
          /\ UNCHANGED views
     ELSE /\ gs' = [gs EXCEPT ![c] =
                      [IdleCall EXCEPT !.readStatus = job.status]]
          /\ views' = RecordView(job.status, JobView(job))
  /\ UNCHANGED <<req, sub, job, remote, createCalls, poller, elapsed, now,
                 seenFailed, attempts, taskSeg, downloads, finished, ingest>>

\* the answer to the status query of task idx; after the last task the status
\* is decided, the session is committed and the response is built
GetStatusPoll(c) ==
  /\ gs[c].pc = "poll"
  /\ LET t == gs[c].snap.task_ids[gs[c].idx]
     IN \E r \in get_task_status(t) :
          LET call == [ObserveTask(gs[c], r) EXCEPT
                         !.obs = Append(@, [task |-> t, result |-> r])]
          IN /\ downloads' = Downloaded(t, r)
             /\ IF call.idx < Len(call.snap.task_ids)
                THEN /\ gs' = [gs EXCEPT ![c] = [call EXCEPT !.idx = @ + 1]]
                     /\ UNCHANGED <<job, now, views, seenFailed>>
                ELSE LET decided == DecideStatus(call)
                         row == Commit(job, call.snap, decided)
                     IN /\ job' = row
                        /\ now' = IF decided.completed_at
                                       # call.snap.completed_at
                                  THEN now + 1 ELSE now
                        /\ gs' = [gs EXCEPT ![c] =
                                    [IdleCall EXCEPT
                                       !.queried = TRUE,
                                       !.readStatus = call.readStatus]]
                        /\ views' = RecordView(call.readStatus, JobView(row))
                        /\ seenFailed' = (seenFailed \/ call.sawFailed)
  /\ UNCHANGED <<req, sub, remote, createCalls, poller, elapsed, calls,
                 attempts, taskSeg, finished, ingest>>

\* ---------------------------------------------------------- specification
\* every request the endpoint accepts for planning
AllRequests ==
  {r \in [mode : Modes, model : UNION {ModelChoices(m) : m \in Modes},
          duration : Durations, resolution : Resolutions] :
     r.model \in ModelChoices(r.mode)}

\* the requests followed through polling and reconciliation: default model,
\* one accepted single call (5), one rejected single plan (12), one plan whose
\* second segment is rejected (16) and one accepted two-segment plan (20)
LifecycleDurations == {5, 12, 16, 20}

LifecycleRequests ==
  {r \in AllRequests :
     /\ r.model = None
     /\ r.resolution = "720P"
     /\ r.duration \in LifecycleDurations}

Submit(requests) ==
  \E r \in requests : SubmitBegin(r.mode, r.model, r.duration, r.resolution)

CreateResponds == \E outcome \in HttpOutcomes : CreateResponse(outcome)

ProviderAdvances ==
  \E t \in 1..Len(remote), s \in {"RUNNING", "SUCCEEDED", "FAILED"} :
    ProviderAdvance(t, s)

Next ==
  \/ Submit(LifecycleRequests)
  \/ CreateResponds
  \/ ProviderAdvances
  \/ PollerStart
  \/ PollerPoll
  \/ DeadlineElapses
  \/ \E c \in Callers : GetStatusBegin(c)
  \/ \E c \in Callers : GetStatusPoll(c)

Spec == Init /\ [][Next]_vars

\* the scheduler runs every ready coroutine and time passes; callers and the
\* provider are under no obligation
LiveSpec ==
  /\ Spec
  /\ WF_vars(CreateResponds)
  /\ WF_vars(PollerStart)
  /\ WF_vars(PollerPoll)
  /\ WF_vars(DeadlineElapses)
  /\ \A c \in Callers : WF_vars(GetStatusPoll(c))

\* submit alone, over every request
SubmitNext ==
  \/ Submit(AllRequests)
  \/ CreateResponds

SubmitSpec == Init /\ [][SubmitNext]_vars

\* the image-to-video requests followed through ingestion: default model,
\* one single call, one rejected plan and one two-segment plan
ImageRequests ==
  {r \in AllRequests :
     /\ r.mode = "i2v"
     /\ r.model = None
     /\ r.resolution = "720P"
     /\ r.duration \in {5, 12, 20}}

UploadImages ==
  \E file \in ImageFiles, oss \in OssStates : UploadImage(file, oss)

SubmitImages ==
  \E r \in ImageRequests, image_file \in ImageFiles, oss \in OssStates,
     api_url \in ApiUrls :
    SubmitImageBegin(r.model, r.duration, r.resolution, image_file, oss,
                     api_url)

\* the two endpoints that take an image file, and the create-task calls
IngestNext ==
  \/ UploadImages
  \/ SubmitImages
  \/ CreateResponds

IngestSpec == Init /\ [][IngestNext]_vars

\* ------------------------------------------------------------------ claims
AnyTaskTerminal == \E t \in 1..Len(remote) : remote[t] \in Terminal

\* C1: for a Job of two or more segments, once an observer (the poller, or a
\* getStatus reconciliation that has committed) has seen one segment FAILED
\* at the provider, the Job is FAILED, whatever the other segments are doing.
C1_FailFast ==
  (seenFailed /\ Len(job.task_ids) >= 2) => job.status = "FAILED"

\* C2: no Job with remote tasks stays PENDING, RUNNING or CONCATENATING
\* forever when its tasks never become terminal: it eventually becomes
\* terminal (FAILED by the deadline).
C2_NoJobStaysNonTerminal ==
  (job.task_ids # <<>>) ~> (job.status \in Terminal \/ AnyTaskTerminal)

\* C3: a SUCCEEDED Job has a non-empty local artifact path.
C3_SucceededHasArtifact ==
  job.status = "SUCCEEDED" => job.local_path # None

\* C4: no step moves the Job out of SUCCEEDED or out of FAILED.
C4_TerminalImmutable ==
  [][job.status \in Terminal => job'.status = job.status]_vars

\* a reconciliation and the poller have both written the Job, which is
\* terminal
C4_Witness ==
  /\ job.status \in Terminal
  /\ poller.pc = "done"
  /\ \E c \in Callers : gs[c].pc = "idle" /\ gs[c].queried

\* C5: at most one operation at a time is between its read of the Job row
\* and its commit.
C5_SerializedWrites ==
  Cardinality({c \in Callers : gs[c].pc = "poll"}) <= 1

\* C6: two consecutive getStatus calls on a terminal Job return the same
\* JobView.
C6_TerminalViewsIdentical ==
  Len(views) = 2 => views[1] = views[2]

\* C7: a getStatus call that reads a SUCCEEDED or FAILED Job issues no
\* provider status query.
C7_NoQueryOnTerminal ==
  \A c \in Callers : gs[c].queried => gs[c].readStatus \in NonTerminal

\* a call has answered for a terminal Job that has tasks, without a query
C7_Witness ==
  /\ job.task_ids # <<>>
  /\ \E c \in Callers : gs[c].readStatus \in Terminal /\ ~gs[c].queried

\* C8: the planned segment durations sum to the requested duration, every
\* segment but the last is 5 or 10, and a duration of at most 10 is planned
\* as the single segment [D].
C8_PlanSumsToDuration ==
  sub.pc # "idle" =>
    /\ SumSeq(sub.plan) = req.duration
    /\ \A k \in 1..(Len(sub.plan) - 1) : sub.plan[k] \in {5, 10}
    /\ (req.duration <= 10 => sub.plan = <<req.duration>>)

\* a plan whose last segment carries a merged remainder
C8_Witness == sub.pc # "idle" /\ sub.plan = <<10, 9>>

\* C9: a request of more than 10 seconds for the default model, which the
\* provider does not refuse, ends submit with at least two create-task calls
\* of at most 10 seconds each and with all their tasks recorded on the Job.
C9_LongRequestDecomposed ==
  (/\ sub.pc = "done"
   /\ req.duration > max_single_duration
   /\ req.model = None
   /\ job.error_message \notin CreateErrors) =>
    /\ Len(createCalls) >= 2
    /\ \A k \in 1..Len(createCalls) : createCalls[k] <= max_single_duration
    /\ job.status # "FAILED"
    /\ Len(job.task_ids) = Len(createCalls)

\* C10: every planned segment but the last is one of the durations the
\* request's model supports.
C10_PlanUsesModelDurations ==
  (sub.pc # "idle" /\ ModelName(req.mode, req.model)
                         \in DOMAIN ModelTable(req.mode)) =>
    \A k \in 1..(Len(sub.plan) - 1) :
      sub.plan[k] \in
        ModelTable(req.mode)[ModelName(req.mode, req.model)].durations

\* C13: a create-task call whose last answer was a transient error (5xx,
\* connection error, timeout) returns its error only after it was retried,
\* with at most max_retries attempts in total.
TransientOutcomes == {"http_500", "http_502", "connect_error", "timeout"}

C13_TransientRetried ==
  (/\ sub.pc = "done"
   /\ attempts # <<>>
   /\ attempts[Len(attempts)] \in TransientOutcomes) =>
    /\ Len(attempts) >= 2
    /\ Len(attempts) <= max_retries

ValidationErrors ==
  {"unsupported_model", "unsupported_duration", "unsupported_resolution"}

C19_ValidationBeforeCreate ==
  (sub.pc = "done" /\ job.error_message \in ValidationErrors) =>
    createCalls = <<>>

\* C11: the files handed to the concatenator, and the lines of the concat
\* list written from them, are in segment order: position k holds the file of
\* the task created for segment k, whatever order the tasks finished in.
C11_SegmentOrderPreserved ==
  poller.concat_list # <<>> =>
    /\ Len(poller.video_paths) = Len(sub.plan)
    /\ Len(poller.concat_list) = Len(sub.plan)
    /\ \A k \in 1..Len(poller.video_paths) :
         /\ poller.video_paths[k] = TaskFile(sub.task_ids[k])
         /\ taskSeg[sub.task_ids[k]] = k
         /\ poller.concat_list[k] = <<"file", poller.video_paths[k]>>

\* the concat list was written for a Job whose second task finished first
C11_Witness ==
  /\ poller.concat_list # <<>>
  /\ finished = <<2, 1>>

\* C12: no task's video is downloaded more than once.
C12_DownloadedOnce ==
  \A t \in 1..Len(downloads) : downloads[t] <= 1

\* C14: a poller iteration that meets the task still PENDING or RUNNING
\* before the deadline does not end the wait with the Job FAILED, even if
\* its status query fails.
C14_PollErrorDoesNotFailJob ==
  [][(/\ poller.pc = "polling"
      /\ ~elapsed
      /\ remote[sub.task_ids[poller.i]] \in {"PENDING", "RUNNING"}
      /\ poller'.pc = "done") => job'.status # "FAILED"]_vars

\* C16: the error the poller records on the Job for a task whose download
\* failed differs from the error it records for that task when its
\* generation FAILED.
C16_DownloadFailureDistinct ==
  (/\ poller.pc = "done"
   /\ poller.result.message = "download_failed"
   /\ job.status = "FAILED") =>
    job.error_message #
      TaskFailure(sub.task_ids[poller.i],
                  StatusResult("FAILED", "provider_error", None, 0),
                  Len(poller.video_paths)).error

\* C17: a getStatus call on a non-terminal Job has queried every recorded
\* task, in order, when it commits, and a second call that reads the row it
\* left and gets the same answers from the provider leaves that row as it is.
C17_ReconcileIdempotent ==
  [][\A c \in Callers :
       (gs[c].pc = "poll" /\ gs'[c].pc = "idle") =>
         LET t == gs[c].snap.task_ids[gs[c].idx]
         IN /\ gs[c].idx = Len(job'.task_ids)
            /\ Len(gs[c].obs) = gs[c].idx - 1
            /\ \A k \in 1..Len(gs[c].obs) :
                 gs[c].obs[k].task = job'.task_ids[k]
            /\ t = job'.task_ids[gs[c].idx]
            /\ \A r \in get_task_status(t) :
                 (job' = Commit(job, gs[c].snap,
                                DecideStatus(ObserveTask(gs[c], r)))) =>
                   \A o \in {Append(gs[c].obs, [task |-> t, result |-> r])} :
                     (Reconcile(job, o) = job)']_vars

\* C18: while submit has not produced its response, no status query has been
\* issued, nothing has been downloaded or concatenated, and the background
\* task has not been scheduled.
C18_SubmitDoesNotWait ==
  sub.pc # "done" =>
    /\ poller.pc = "idle"
    /\ poller.video_paths = <<>>
    /\ poller.concat_list = <<>>
    /\ \A t \in 1..Len(downloads) : downloads[t] = 0
    /\ \A c \in Callers : gs[c].pc # "poll" /\ ~gs[c].queried

\* submit is still creating the second segment's task while the first task
\* has already finished at the provider
C18_Witness ==
  /\ sub.pc = "creating"
  /\ sub.i = 2
  /\ \E t \in 1..Len(remote) : remote[t] = "SUCCEEDED"

\* C20 as claimed: a CONCATENATING Job has all its tasks SUCCEEDED at the
\* provider.
C20_ConcatenatingAfterAllSucceeded ==
  job.status = "CONCATENATING" =>
    \A k \in 1..Len(job.task_ids) : remote[job.task_ids[k]] = "SUCCEEDED"

\* C20 as amended: a CONCATENATING Job has two or more tasks and a
\* background task that has not yet written its outcome.
C20_ConcatenatingWhilePollerRuns ==
  job.status = "CONCATENATING" =>
    /\ Len(job.task_ids) >= 2
    /\ poller.pc \in {"scheduled", "polling"}

\* a CONCATENATING Job whose first segment is still running
C20_Witness ==
  /\ job.status = "CONCATENATING"
  /\ poller.pc = "polling"
  /\ remote[job.task_ids[1]] = "RUNNING"

\* C21: a submit with an image file whose upload to object storage failed,
\* or found no bucket, goes on to create the Job, and every create-task call
\* it issues carries the image as a MIME-tagged data URI.
C21_FallbackInline ==
  (ingest.endpoint = "submit" /\ ingest.oss # "ok") =>
    /\ job.status # "ABSENT"
    /\ createCalls # <<>> =>
         /\ ingest.payload.kind = "data_uri"
         /\ ingest.payload.mime # None

\* C22: an uploaded file whose content type is not an image type has caused
\* no object-storage call and no create-task call.
C22_TypeCheckedBeforeNetwork ==
  (ingest.endpoint # None /\ ~IsImageType(ingest.content_type)) =>
    /\ ingest.oss_calls = 0
    /\ createCalls = <<>>

\* C23: once the concatenator has returned, the concat list file it wrote
\* is gone.
C23_ManifestRemoved ==
  poller.pc = "done" => ~poller.manifest_exists

\* the errors the concatenator returns
MergeErrors == {c.error : c \in concatenate_videos(<<>>)} \ {None}

\* the errors recorded for a failed or unreachable segment task, for the
\* deadline and for a refused submit
OtherErrors ==
  {TaskFailed(t) : t \in 1..3} \cup {"timeout", "provider_error"}
    \cup CreateErrors \cup ValidationErrors

\* C24: when the concatenator returned an error, the Job is FAILED and its
\* error_message is that error, which is none of the errors recorded for
\* segment failure, deadline or submit.
C24_MergeFailureRecorded ==
  (poller.pc = "done" /\ poller.result.error \in MergeErrors) =>
    /\ job.status = "FAILED"
    /\ job.error_message = poller.result.error
    /\ job.error_message \notin OtherErrors

\* the merge of a two-segment Job failed because ffmpeg is not installed,
\* while a reconciliation had recorded a segment file on the Job
C24_Witness ==
  /\ poller.pc = "done"
  /\ poller.result.error = "ffmpeg_missing"
  /\ job.status = "FAILED"
  /\ job.local_path # None

\* C26: the failure recorded on a Job that timed out after some segments had
\* completed differs from the one recorded when none had completed: the
\* count of completed segments can be read from the Job.
C26_TimeoutKeepsCompletedCount ==
  (/\ poller.pc = "done"
   /\ poller.result.error = "timeout"
   /\ poller.result.completed_segments > 0) =>
    /\ job.status = "FAILED"
    /\ job.error_message # PollerResult("timeout", "wait_exceeded", 0,
                                        None).error

\* C27: a SUCCEEDED Job of two or more segments has the concatenated file as
\* its local_path.
C27_SucceededHasConcatFile ==
  (job.status = "SUCCEEDED" /\ Len(job.task_ids) >= 2) =>
    job.local_path = ConcatFile

\* a response of getStatus with one of the five statuses and, when FAILED,
\* an error text
WellFormed(view) ==
  /\ view.status \in NonTerminal \cup Terminal
  /\ view.status = "FAILED" => view.error # None

C28_AcceptedTasksRecorded ==
  sub.pc = "done" =>
    /\ job.task_ids = [t \in 1..Len(remote) |-> t]
    /\ job.status # "FAILED" => Len(job.task_ids) = Len(sub.plan)

\* the status changes the Job may make
AllowedTransitions ==
  {<<"PENDING", "RUNNING">>, <<"PENDING", "CONCATENATING">>,
   <<"PENDING", "FAILED">>, <<"RUNNING", "SUCCEEDED">>,
   <<"RUNNING", "FAILED">>, <<"CONCATENATING", "SUCCEEDED">>,
   <<"CONCATENATING", "FAILED">>}

\* C29: every change of an existing Job's status is one of the allowed
\* transitions; a RUNNING Job has exactly one task id, a CONCATENATING Job
\* at least two.
C29_StatusTransitions ==
  /\ [](/\ job.status = "RUNNING" => Len(job.task_ids) = 1
        /\ job.status = "CONCATENATING" => Len(job.task_ids) >= 2)
  /\ [][(job.status # "ABSENT" /\ job'.status # job.status) =>
          <<job.status, job'.status>> \in AllowedTransitions]_vars

\* a two-segment Job has gone from PENDING through CONCATENATING to
\* SUCCEEDED
C29_Witness ==
  /\ job.status = "SUCCEEDED"
  /\ Len(job.task_ids) >= 2
  /\ poller.pc = "done"

\* C30: when submit has returned, the Job is not PENDING.
C30_NotPendingAfterSubmit ==
  sub.pc = "done" => job.status \in {"RUNNING", "CONCATENATING"} \cup Terminal

\* submit has returned after a 200 answer that carried no task_id
C30_Witness ==
  /\ sub.pc = "done"
  /\ attempts # <<>>
  /\ attempts[Len(attempts)] = "ok_no_task_id"
  /\ job.status = "FAILED"

====
